---- MODULE Spec2Model ----
(***************************************************************************)
(* Model of addons/analytic/models/analytic_account.py: the analytic       *)
(* accounts, lines, groups and distributions, their constraints, the       *)
(* debit/credit/balance aggregation and the account display and lookup.    *)
(*                                                                         *)
(* Amounts and percentages are integers.  A character string is a tuple    *)
(* of one-character strings, <<"a", "b">> for 'ab'.                        *)
(***************************************************************************)
EXTENDS Integers, Sequences, FiniteSets, TLC

VARIABLES
    accounts,       \* account.analytic.account rows: id -> record
    lines,          \* account.analytic.line rows: id -> record
    seq,            \* the id sequences of the tables
    last,           \* the last operation called and its outcome
    context,        \* self._context of the balance computation
    computed,       \* debit, credit and balance as last computed
    groups,         \* account.analytic.group rows: id -> record
    distributions,  \* account.analytic.distribution rows: id -> record
    partners,       \* res.partner rows: id -> record
    call,           \* the arguments of the name_search call to answer
    returned        \* the value returned by name_get or name_search

vars == <<accounts, lines, seq, last, context, computed, groups,
          distributions, partners, call, returned>>

----------------------------------------------------------------------------
(* Bounds of the model *)

MaxAccounts == 2
\* lines created through the record store
MaxLines == 1
\* lines of a store the aggregation reads
MaxStoredLines == 2
MaxDate == 2

AccountIds == 1..MaxAccounts
LineIds == 1..MaxLines
Dates == 1..MaxDate

Companies == {"c1", "c2"}
NoCompany == "None"
Tags == {"t1", "t2"}
PartnerIds == {"p1", "p2"}
NoPartner == "None"
NoCode == <<>>
NoDate == 0

\* self.env.user.company_id
UserCompany == "c1"

Empty == [i \in {} |-> 0]

NoLast == [op |-> "none", outcome |-> "ok"]

NoRows == [account |-> 0, line |-> 0, group |-> 0, distribution |-> 0]

----------------------------------------------------------------------------
(* Records of the store; fields an operation does not give get these values *)

DefaultAccount ==
    [name |-> <<"a">>, code |-> NoCode, active |-> TRUE,
     company_id |-> UserCompany, partner_id |-> NoPartner]

DefaultLine(account_id) ==
    [account_id |-> account_id, company_id |-> UserCompany, amount |-> 0,
     date |-> 1, tag_ids |-> {}]

\* vals laid over a record: the fields of vals replace those of rec
Merge(rec, vals) ==
    [f \in DOMAIN rec |-> IF f \in DOMAIN vals THEN vals[f] ELSE rec[f]]

----------------------------------------------------------------------------
(* AccountAnalyticLine._check_company_id *)

\* TRUE when the constraint raises ValidationError for the line
_check_company_id_no_guard(line, accs) ==
    line.company_id # accs[line.account_id].company_id

_check_company_id(line, accs) ==
    /\ accs[line.account_id].company_id # NoCompany
    /\ line.company_id # accs[line.account_id].company_id

\* account_id = fields.Many2one(..., required=True, ondelete='restrict')
account_id_ondelete_cascade == "cascade"

account_id_ondelete == "restrict"

----------------------------------------------------------------------------
(* The record store: create, write and unlink of accounts and lines *)

LedgerUnchanged == UNCHANGED <<context, computed, groups, distributions,
                               partners, call, returned>>

create_account(company) ==
    /\ seq.account < MaxAccounts
    /\ LET id == seq.account + 1
       IN  /\ accounts' = accounts @@ (id :> Merge(DefaultAccount, [company_id |-> company]))
           /\ seq' = [seq EXCEPT !.account = id]
           /\ last' = [op |-> "create_account", id |-> id, outcome |-> "ok"]
    /\ UNCHANGED lines
    /\ LedgerUnchanged

\* No constraint of the account model reads company_id
write_account(id, company) ==
    /\ id \in DOMAIN accounts
    /\ accounts' = [accounts EXCEPT ![id].company_id = company]
    /\ last' = [op |-> "write_account", id |-> id, outcome |-> "ok"]
    /\ UNCHANGED <<lines, seq>>
    /\ LedgerUnchanged

\* The foreign key of line.account_id decides what a delete does to the lines
unlink_account(id) ==
    /\ id \in DOMAIN accounts
    /\ LET owned == {l \in DOMAIN lines : lines[l].account_id = id}
       IN  IF owned # {} /\ account_id_ondelete = "restrict"
           THEN /\ last' = [op |-> "unlink_account", id |-> id, outcome |-> "IntegrityError"]
                /\ UNCHANGED <<accounts, lines>>
           ELSE /\ accounts' = [a \in DOMAIN accounts \ {id} |-> accounts[a]]
                /\ lines' = [l \in DOMAIN lines \ owned |-> lines[l]]
                /\ last' = [op |-> "unlink_account", id |-> id, outcome |-> "ok"]
    /\ UNCHANGED seq
    /\ LedgerUnchanged

\* vals: account_id and company_id of the new line
create_line(vals) ==
    /\ seq.line < MaxLines
    /\ LET id == seq.line + 1
           line == Merge(DefaultLine(vals.account_id), vals)
       IN  IF vals.account_id \notin DOMAIN accounts
           THEN /\ last' = [op |-> "create_line", id |-> id, vals |-> vals,
                            outcome |-> "IntegrityError"]
                /\ UNCHANGED <<lines, seq>>
           ELSE IF _check_company_id(line, accounts)
           THEN /\ last' = [op |-> "create_line", id |-> id, vals |-> vals,
                            outcome |-> "ValidationError"]
                /\ UNCHANGED <<lines, seq>>
           ELSE /\ lines' = lines @@ (id :> line)
                /\ seq' = [seq EXCEPT !.line = id]
                /\ last' = [op |-> "create_line", id |-> id, vals |-> vals,
                            outcome |-> "ok"]
    /\ UNCHANGED accounts
    /\ LedgerUnchanged

\* vals: account_id, company_id or both
write_line(id, vals) ==
    /\ id \in DOMAIN lines
    /\ LET line == Merge(lines[id], vals)
       IN  IF line.account_id \notin DOMAIN accounts
           THEN /\ last' = [op |-> "write_line", id |-> id, vals |-> vals,
                            outcome |-> "IntegrityError"]
                /\ UNCHANGED lines
           ELSE IF _check_company_id(line, accounts)
           THEN /\ last' = [op |-> "write_line", id |-> id, vals |-> vals,
                            outcome |-> "ValidationError"]
                /\ UNCHANGED lines
           ELSE /\ lines' = [lines EXCEPT ![id] = line]
                /\ last' = [op |-> "write_line", id |-> id, vals |-> vals,
                            outcome |-> "ok"]
    /\ UNCHANGED <<accounts, seq>>
    /\ LedgerUnchanged

unlink_line(id) ==
    /\ id \in DOMAIN lines
    /\ lines' = [l \in DOMAIN lines \ {id} |-> lines[l]]
    /\ last' = [op |-> "unlink_line", id |-> id, outcome |-> "ok"]
    /\ UNCHANGED <<accounts, seq>>
    /\ LedgerUnchanged

LineKeyVals ==
    [account_id : AccountIds, company_id : Companies]
        \cup [account_id : AccountIds] \cup [company_id : Companies]

Init ==
    /\ accounts = Empty
    /\ lines = Empty
    /\ seq = NoRows
    /\ last = NoLast
    /\ context = Empty
    /\ computed = Empty
    /\ groups = Empty
    /\ distributions = Empty
    /\ partners = Empty
    /\ call = Empty
    /\ returned = <<>>

Next ==
    \/ \E c \in Companies \cup {NoCompany} : create_account(c)
    \/ \E a \in AccountIds, c \in Companies \cup {NoCompany} : write_account(a, c)
    \/ \E a \in AccountIds : unlink_account(a)
    \/ \E v \in [account_id : AccountIds, company_id : Companies] : create_line(v)
    \/ \E l \in LineIds, v \in LineKeyVals : write_line(l, v)
    \/ \E l \in LineIds : unlink_line(l)

Spec == Init /\ [][Next]_vars

----------------------------------------------------------------------------
(* Claims about the record store, checked under Spec *)

\* C3: in every reachable state every line whose account has a company set
\* has the same company as that account.
C3_LineCompanyMatchesAccount ==
    \A l \in DOMAIN lines :
        lines[l].account_id \in DOMAIN accounts =>
            LET acc == accounts[lines[l].account_id]
            IN  acc.company_id # NoCompany => lines[l].company_id = acc.company_id

\* The line an operation on lines asks the store to hold
RequestedLine(op, id, vals, lns) ==
    IF op = "create_line" THEN Merge(DefaultLine(vals.account_id), vals)
    ELSE Merge(lns[id], vals)

\* C4: creating a line, or writing a line's company_id or account_id, so that
\* the line's account has a company set and the line's company differs from
\* it fails with ValidationError and leaves the stored lines unchanged; when
\* the account has no company, or the companies are equal, it is accepted.
C4_MismatchRejected ==
    [][(last'.op \in {"create_line", "write_line"}
            /\ last'.outcome # "IntegrityError") =>
        LET line == RequestedLine(last'.op, last'.id, last'.vals, lines)
            acc == accounts[line.account_id]
        IN  IF acc.company_id # NoCompany /\ line.company_id # acc.company_id
            THEN last'.outcome = "ValidationError" /\ lines' = lines
            ELSE /\ last'.outcome = "ok"
                 /\ last'.id \in DOMAIN lines'
                 /\ lines'[last'.id] = line]_vars

\* A write of account_id on a stored line was rejected for its company
C4_Witness ==
    /\ last.op = "write_line"
    /\ last.outcome = "ValidationError"
    /\ "account_id" \in DOMAIN last.vals
    /\ accounts[last.vals.account_id].company_id \notin
           {NoCompany, lines[last.id].company_id}

EveryLineHasAccount ==
    \A l \in DOMAIN lines : lines[l].account_id \in DOMAIN accounts

\* C6: every line always references an existing account: deleting an account
\* that has a line is rejected and leaves the account and its lines in place,
\* deleting an account with no line succeeds.
C6_RestrictOnDelete ==
    /\ []EveryLineHasAccount
    /\ [][last'.op = "unlink_account" =>
            IF \E l \in DOMAIN lines : lines[l].account_id = last'.id
            THEN /\ last'.outcome # "ok"
                 /\ accounts' = accounts
                 /\ lines' = lines
            ELSE /\ last'.outcome = "ok"
                 /\ last'.id \notin DOMAIN accounts'
                 /\ lines' = lines]_vars

\* The delete of an account that has a line was refused
C6_Witness ==
    /\ last.op = "unlink_account"
    /\ last.outcome = "IntegrityError"
    /\ last.id \in DOMAIN accounts
    /\ \E l \in DOMAIN lines : lines[l].account_id = last.id

----------------------------------------------------------------------------
(* Search domains (odoo.osv.expression): a domain is a sequence of terms in *)
(* prefix notation, each an operator or a (field, operator, value) leaf     *)

AND_OPERATOR == [term |-> "&"]
OR_OPERATOR == [term |-> "|"]
Leaf(f, o, v) == [term |-> "leaf", field |-> f, op |-> o, value |-> v]
TRUE_LEAF == [term |-> "leaf", field |-> "true", op |-> "=", value |-> 1]
FALSE_LEAF == [term |-> "leaf", field |-> "false", op |-> "=", value |-> 1]
TRUE_DOMAIN == <<TRUE_LEAF>>
FALSE_DOMAIN == <<FALSE_LEAF>>

RECURSIVE normalize_from(_, _, _, _)
normalize_from(domain, i, expected, result) ==
    IF i > Len(domain) THEN result
    ELSE LET token == domain[i]
             \* more terms than expected, as in [A, B]: an extra '&' in front
             res == IF expected = 0 THEN <<AND_OPERATOR>> \o result ELSE result
             exp == IF expected = 0 THEN 1 ELSE expected
         IN  normalize_from(domain, i + 1,
                            IF token.term = "leaf" THEN exp - 1 ELSE exp + 1,
                            Append(res, token))

\* expression.normalize_domain: the implicit '&' operators made explicit
normalize_domain(domain) ==
    IF domain = <<>> THEN TRUE_DOMAIN ELSE normalize_from(domain, 1, 1, <<>>)

RECURSIVE combine_from(_, _, _, _, _)
combine_from(operator, unit, domains, i, acc) ==
    IF i > Len(domains)
    THEN IF acc.count = 0 THEN acc.result
         ELSE [k \in 1..(acc.count - 1) |-> operator] \o acc.result
    ELSE IF domains[i] = unit \/ domains[i] = <<>>
         THEN combine_from(operator, unit, domains, i + 1, acc)
         ELSE combine_from(operator, unit, domains, i + 1,
                           [result |-> acc.result \o domains[i],
                            count |-> acc.count + 1])

\* expression.combine: the domains joined by the binary operator
combine(operator, unit, zero, domains) ==
    IF \E i \in 1..Len(domains) :
           /\ domains[i] = zero
           /\ \A j \in 1..(i - 1) : domains[j] # zero
    THEN zero
    ELSE combine_from(operator, unit, domains, 1, [result |-> <<>>, count |-> 0])

expression_AND(domains) == combine(AND_OPERATOR, TRUE_DOMAIN, FALSE_DOMAIN, domains)
expression_OR(domains) == combine(OR_OPERATOR, FALSE_DOMAIN, TRUE_DOMAIN, domains)

----------------------------------------------------------------------------
(* Character strings and the comparison operators of a search *)

lower(c) == IF c = "A" THEN "a" ELSE IF c = "B" THEN "b" ELSE c
str_lower(s) == [i \in 1..Len(s) |-> lower(s[i])]

contains(s, sub) ==
    \E i \in 0..(Len(s) - Len(sub)) : SubSeq(s, i + 1, i + Len(sub)) = sub

\* value <operator> pattern as the database evaluates it; the characters of
\* the model hold no wildcard.  An absent value (NULL) matches nothing.
str_match(value, operator, pattern) ==
    /\ value # <<>>
    /\ CASE operator = "=" -> value = pattern
         [] operator = "=like" -> value = pattern
         [] operator = "=ilike" -> str_lower(value) = str_lower(pattern)
         [] operator = "like" -> contains(value, pattern)
         [] operator = "ilike" -> contains(str_lower(value), str_lower(pattern))

StringFields == {"code", "name"}
X2ManyFields == {"tag_ids"}

\* one leaf of a domain on one record
eval_leaf(leaf, rec) ==
    CASE leaf = TRUE_LEAF -> TRUE
      [] leaf = FALSE_LEAF -> FALSE
      [] leaf.field \in StringFields -> str_match(rec[leaf.field], leaf.op, leaf.value)
      [] leaf.field \in X2ManyFields /\ leaf.op = "in" ->
             rec[leaf.field] \cap leaf.value # {}
      [] OTHER ->
             CASE leaf.op = "in" -> rec[leaf.field] \in leaf.value
               [] leaf.op = "=" -> rec[leaf.field] = leaf.value
               [] leaf.op = ">=" -> rec[leaf.field] >= leaf.value
               [] leaf.op = "<=" -> rec[leaf.field] <= leaf.value
               [] leaf.op = "<" -> rec[leaf.field] < leaf.value

RECURSIVE eval_at(_, _, _)
eval_at(domain, i, rec) ==
    IF domain[i].term = "leaf"
    THEN [val |-> eval_leaf(domain[i], rec), next |-> i + 1]
    ELSE LET l == eval_at(domain, i + 1, rec)
             r == eval_at(domain, l.next, rec)
         IN  [val |-> IF domain[i] = AND_OPERATOR THEN l.val /\ r.val
                      ELSE l.val \/ r.val,
              next |-> r.next]

\* the records of a table that a domain selects
domain_matches(domain, rec) == eval_at(normalize_domain(domain), 1, rec).val

----------------------------------------------------------------------------
(* Currency conversion (res.currency.compute), a service outside the module *)

Abs(n) == IF n < 0 THEN -n ELSE n

\* company_id.currency_id, and the rate of each currency
CurrencyOf == [c \in Companies |-> IF c = "c1" THEN "USD" ELSE "EUR"]
Rate == [cur \in {"USD", "EUR"} |-> IF cur = "USD" THEN 2 ELSE 3]

\* n / d rounded to the nearest integer, halves away from zero
round_div(n, d) ==
    LET q == (2 * Abs(n) + d) \div (2 * d)
    IN  IF n < 0 THEN -q ELSE q

currency_compute(from_currency, from_amount, to_currency) ==
    IF from_currency = to_currency THEN from_amount
    ELSE round_div(from_amount * Rate[to_currency], Rate[from_currency])

----------------------------------------------------------------------------
(* AccountAnalyticAccount._compute_debit_credit_balance *)

\* the lines of ids in the order of the model: date desc, id desc
RECURSIVE order_lines(_, _)
order_lines(ids, lns) ==
    IF ids = {} THEN <<>>
    ELSE LET first == CHOOSE l \in ids : \A m \in ids \ {l} :
                          \/ lns[l].date > lns[m].date
                          \/ lns[l].date = lns[m].date /\ l > m
         IN  <<first>> \o order_lines(ids \ {first}, lns)

\* analytic_line_obj.search_read(domain, ['account_id', 'amount', 'currency_id'])
search_read(domain, lns) ==
    LET found == order_lines({l \in DOMAIN lns : domain_matches(domain, lns[l])}, lns)
    IN  [i \in 1..Len(found) |->
            [id |-> found[i],
             account_id |-> lns[found[i]].account_id,
             amount |-> lns[found[i]].amount,
             currency_id |-> CurrencyOf[lns[found[i]].company_id]]]

from_date_term(ctx) == Leaf("date", ">=", ctx.from_date)

to_date_term_strict(ctx) == Leaf("date", "<", ctx.to_date)

to_date_term(ctx) == Leaf("date", "<=", ctx.to_date)

company_term(ctx) == Leaf("company_id", "in", ctx.company_ids)

tag_domain(ctx) ==
    expression_OR([i \in 1..Len(ctx.tag_ids) |->
                       <<Leaf("tag_ids", "in", {ctx.tag_ids[i]})>>])

\* the domain built from the records and the context
balance_domain(self_ids, ctx) ==
    LET d0 == <<Leaf("account_id", "in", self_ids)>>
        d1 == IF ctx.from_date # NoDate THEN Append(d0, from_date_term(ctx)) ELSE d0
        d2 == IF ctx.to_date # NoDate THEN Append(d1, to_date_term(ctx)) ELSE d1
        d3 == IF ctx.tag_ids # <<>> THEN expression_AND(<<d2, tag_domain(ctx)>>) ELSE d2
    IN  IF ctx.company_ids # {} THEN Append(d3, company_term(ctx)) ELSE d3

\* the body of the loop over account_amounts: data is [debit, credit], each
\* a dictionary keyed by account id
add_amount_unsigned(data, account_id, amount) ==
    [data EXCEPT !.credit[account_id] = @ + amount]

add_amount(data, account_id, amount) ==
    IF amount < 0
    THEN [data EXCEPT !.debit[account_id] = @ + amount]
    ELSE [data EXCEPT !.credit[account_id] = @ + amount]

RECURSIVE sum_amounts(_, _, _)
sum_amounts(account_amounts, i, data) ==
    IF i > Len(account_amounts) THEN data
    ELSE LET account_amount == account_amounts[i]
             amount == currency_compute(account_amount.currency_id,
                                        account_amount.amount,
                                        CurrencyOf[UserCompany])
         IN  sum_amounts(account_amounts, i + 1,
                         add_amount(data, account_amount.account_id, amount))

dict_get(dict, key, default) == IF key \in DOMAIN dict THEN dict[key] ELSE default

RECURSIVE dict_total(_, _)
dict_total(dict, keys) ==
    IF keys = {} THEN 0
    ELSE LET k == CHOOSE x \in keys : TRUE
         IN  dict[k] + dict_total(dict, keys \ {k})

\* the figures assigned to one account of self
account_figures_unkeyed(account_id, data) ==
    LET debit == Abs(dict_total(data.debit, DOMAIN data.debit))
        credit == dict_total(data.credit, DOMAIN data.credit)
    IN  [debit |-> debit, credit |-> credit, balance |-> credit - debit]

account_figures(account_id, data) ==
    LET debit == Abs(dict_get(data.debit, account_id, 0))
        credit == dict_get(data.credit, account_id, 0)
    IN  [debit |-> debit, credit |-> credit, balance |-> credit - debit]

\* debit, credit and balance of every account of self, and the lines fetched
_compute_debit_credit_balance(self_ids, ctx, lns) ==
    LET account_amounts == search_read(balance_domain(self_ids, ctx), lns)
        account_ids == {account_amounts[i].account_id : i \in 1..Len(account_amounts)}
        data == sum_amounts(account_amounts, 1,
                            [debit |-> [a \in account_ids |-> 0],
                             credit |-> [a \in account_ids |-> 0]])
    IN  [fetched |-> {account_amounts[i].id : i \in 1..Len(account_amounts)},
         figures |-> [a \in self_ids |-> account_figures(a, data)]]

----------------------------------------------------------------------------
(* The aggregation on a store of lines: SpecBalance *)

Amounts == {-50, 30}
LineRecords ==
    [account_id : AccountIds, company_id : Companies, amount : Amounts,
     date : Dates, tag_ids : {{}, {"t1"}, {"t2"}}]

\* from_date, to_date, tag_ids and company_ids of the context; a from_date
\* of the first day is left out, it excludes no line
Contexts ==
    [from_date : {NoDate, MaxDate}, to_date : {NoDate} \cup Dates,
     tag_ids : {<<>>, <<"t1">>, <<"t1", "t2">>},
     company_ids : {{}, {"c2"}}]

InitBalance ==
    /\ accounts = [a \in AccountIds |-> Merge(DefaultAccount, [company_id |-> NoCompany])]
    /\ \E n \in 0..MaxStoredLines : lines \in [1..n -> LineRecords]
    /\ seq = [NoRows EXCEPT !.account = MaxAccounts, !.line = Cardinality(DOMAIN lines)]
    /\ last = NoLast
    /\ context \in Contexts
    /\ computed = Empty
    /\ groups = Empty
    /\ distributions = Empty
    /\ partners = Empty
    /\ call = Empty
    /\ returned = <<>>

\* reading debit, credit or balance of the accounts self_ids
read_balance(self_ids) ==
    /\ self_ids \subseteq DOMAIN accounts
    /\ computed' = [self_ids |-> self_ids]
                       @@ _compute_debit_credit_balance(self_ids, context, lines)
    /\ last' = [op |-> "read_balance", outcome |-> "ok"]
    /\ UNCHANGED <<accounts, lines, seq, context, groups, distributions,
                   partners, call, returned>>

NextBalance == \E self_ids \in SUBSET AccountIds \ {{}} : read_balance(self_ids)

SpecBalance == InitBalance /\ [][NextBalance]_vars

----------------------------------------------------------------------------
(* Claims about the aggregation, checked under SpecBalance *)

\* the amount of a line in the currency of the user's company
Converted(l) ==
    currency_compute(CurrencyOf[lines[l].company_id], lines[l].amount,
                     CurrencyOf[UserCompany])

\* the conditions under which a line counts for a set of accounts
FilterHolds(l, self_ids, ctx) ==
    /\ lines[l].account_id \in self_ids
    /\ ctx.from_date # NoDate => lines[l].date >= ctx.from_date
    /\ ctx.to_date # NoDate => lines[l].date <= ctx.to_date
    /\ ctx.tag_ids # <<>> =>
           \E i \in 1..Len(ctx.tag_ids) : ctx.tag_ids[i] \in lines[l].tag_ids
    /\ ctx.company_ids # {} => lines[l].company_id \in ctx.company_ids

MatchingLines(a, self_ids, ctx) ==
    {l \in DOMAIN lines : lines[l].account_id = a /\ FilterHolds(l, self_ids, ctx)}

RECURSIVE SumConverted(_)
SumConverted(ls) ==
    IF ls = {} THEN 0
    ELSE LET l == CHOOSE x \in ls : TRUE
         IN  Converted(l) + SumConverted(ls \ {l})

\* C1: after the computation on a set of accounts, debit(A) is the absolute
\* value of the sum of the negative converted amounts of A's matching lines,
\* credit(A) the sum of the non-negative ones, balance(A) = credit(A) -
\* debit(A), and an account with no matching line gets 0 for all three.
C1_DebitCreditBalance ==
    last.op = "read_balance" =>
        \A a \in computed.self_ids :
            LET ls == MatchingLines(a, computed.self_ids, context)
                fig == computed.figures[a]
            IN  /\ fig.debit = Abs(SumConverted({l \in ls : Converted(l) < 0}))
                /\ fig.credit = SumConverted({l \in ls : Converted(l) >= 0})
                /\ fig.balance = fig.credit - fig.debit
                /\ ls = {} => fig = [debit |-> 0, credit |-> 0, balance |-> 0]

\* Lines of -50 and 30 in the reference currency on one account, both
\* matching: debit 50, credit 30, balance -20
C1_Witness ==
    /\ last.op = "read_balance"
    /\ \E a \in computed.self_ids :
           /\ {[amount |-> lines[l].amount, company_id |-> lines[l].company_id] :
                   l \in MatchingLines(a, computed.self_ids, context)}
                = {[amount |-> -50, company_id |-> UserCompany],
                   [amount |-> 30, company_id |-> UserCompany]}
           /\ computed.figures[a] = [debit |-> 50, credit |-> 30, balance |-> -20]

\* C2: a line contributes to the figures of the computed set iff its account
\* is in the set, its date >= from_date when given, its date <= to_date when
\* given, it carries one of tag_ids when given, and its company is in
\* company_ids when given; an absent or empty filter excludes no line.
C2_FilterDecidesContribution ==
    last.op = "read_balance" =>
        computed.fetched =
            {l \in DOMAIN lines : FilterHolds(l, computed.self_ids, context)}

\* Every filter given, a line fetched on the last day allowed and under the
\* second tag only, and a line of the set left out
C2_Witness ==
    /\ last.op = "read_balance"
    /\ context.from_date # NoDate /\ context.to_date # NoDate
    /\ Len(context.tag_ids) = 2 /\ context.company_ids # {}
    /\ \E l \in computed.fetched :
           lines[l].date = context.to_date /\ lines[l].tag_ids = {context.tag_ids[2]}
    /\ \E l \in DOMAIN lines \ computed.fetched :
           lines[l].account_id \in computed.self_ids

\* C10: the figures the computation on a set S assigns to an account A of S
\* are those the computation on {A} alone assigns to A.
C10_IndependentPerAccount ==
    last.op = "read_balance" =>
        \A a \in computed.self_ids :
            computed.figures[a] =
                _compute_debit_credit_balance({a}, context, lines).figures[a]

\* Two accounts computed together, each with a line fetched
C10_Witness ==
    /\ last.op = "read_balance"
    /\ Cardinality(computed.self_ids) = 2
    /\ \A a \in computed.self_ids :
           \E l \in computed.fetched : lines[l].account_id = a

----------------------------------------------------------------------------
(* AccountAnalyticGroup: the tree of groups and the stored complete_name *)

MaxGroups == 3
GroupIds == 1..MaxGroups
NoGroup == 0
GroupNames == {<<"a">>, <<"b">>}

\* @api.depends('name', 'parent_id.complete_name'), each a path of fields
complete_name_depends_name_only == {<<"name">>}

complete_name_depends == {<<"name">>, <<"parent_id", "complete_name">>}

_compute_complete_name(group, grps) ==
    IF group.parent_id # NoGroup
    THEN grps[group.parent_id].complete_name \o <<" ", "/", " ">> \o group.name
    ELSE group.name

children(id, grps) == {g \in DOMAIN grps : grps[g].parent_id = id}

RECURSIVE descendants(_, _)
descendants(id, grps) ==
    children(id, grps) \cup
        UNION {descendants(c, grps) : c \in children(id, grps)}

\* The records to recompute after a write of the fields written on id
triggered(id, written) ==
    IF \E path \in complete_name_depends : path[1] \in written THEN {id} ELSE {}

\* The stored field recomputed on the records of todo, parents first; a
\* record whose complete_name is assigned marks those that read it through
\* parent_id
RECURSIVE recompute(_, _)
recompute(grps, todo) ==
    IF todo = {} THEN grps
    ELSE LET g == CHOOSE x \in todo : grps[x].parent_id \notin todo
             value == _compute_complete_name(grps[g], grps)
             marked == IF <<"parent_id", "complete_name">> \in complete_name_depends
                       THEN children(g, grps) ELSE {}
         IN  recompute([grps EXCEPT ![g].complete_name = value],
                       (todo \ {g}) \cup marked)

GroupUnchanged == UNCHANGED <<accounts, lines, context, computed,
                              distributions, partners, call, returned>>

create_group(vals) ==
    /\ seq.group < MaxGroups
    /\ vals.parent_id \in DOMAIN groups \cup {NoGroup}
    /\ LET id == seq.group + 1
           row == [name |-> vals.name, parent_id |-> vals.parent_id,
                   complete_name |-> <<>>]
       IN  /\ groups' = recompute(groups @@ (id :> row), {id})
           /\ seq' = [seq EXCEPT !.group = id]
           /\ last' = [op |-> "create_group", id |-> id, vals |-> vals,
                       outcome |-> "ok"]
    /\ GroupUnchanged

\* vals: name, parent_id or both; a parent among the group's own descendants
\* is refused by the parent store
write_group(id, vals) ==
    /\ id \in DOMAIN groups
    /\ "parent_id" \in DOMAIN vals => vals.parent_id \in DOMAIN groups \cup {NoGroup}
    /\ IF "parent_id" \in DOMAIN vals
          /\ vals.parent_id \in descendants(id, groups) \cup {id}
       THEN /\ last' = [op |-> "write_group", id |-> id, vals |-> vals,
                        outcome |-> "UserError"]
            /\ UNCHANGED groups
       ELSE /\ groups' = recompute([groups EXCEPT ![id] = Merge(@, vals)],
                                   triggered(id, DOMAIN vals))
            /\ last' = [op |-> "write_group", id |-> id, vals |-> vals,
                        outcome |-> "ok"]
    /\ UNCHANGED seq
    /\ GroupUnchanged

GroupVals ==
    [name : GroupNames, parent_id : GroupIds \cup {NoGroup}]
        \cup [name : GroupNames] \cup [parent_id : GroupIds \cup {NoGroup}]

InitGroup ==
    /\ accounts = Empty
    /\ lines = Empty
    /\ seq = NoRows
    /\ last = NoLast
    /\ context = Empty
    /\ computed = Empty
    /\ groups = Empty
    /\ distributions = Empty
    /\ partners = Empty
    /\ call = Empty
    /\ returned = <<>>

NextGroup ==
    \/ \E v \in [name : GroupNames, parent_id : GroupIds \cup {NoGroup}] : create_group(v)
    \/ \E g \in GroupIds, v \in GroupVals : write_group(g, v)

SpecGroup == InitGroup /\ [][NextGroup]_vars

\* C5: in every state reached by creating, renaming and reparenting groups,
\* complete_name(g) = complete_name(parent(g)) + " / " + name(g) when g has
\* a parent and name(g) when g is a root.
C5_CompleteNameOfEveryGroup ==
    \A g \in DOMAIN groups :
        groups[g].complete_name =
            IF groups[g].parent_id = NoGroup THEN groups[g].name
            ELSE groups[groups[g].parent_id].complete_name
                     \o <<" ", "/", " ">> \o groups[g].name

\* A group with a child was renamed and moved under another group
C5_Witness ==
    /\ last.op = "write_group"
    /\ last.outcome = "ok"
    /\ DOMAIN last.vals = {"name", "parent_id"}
    /\ last.vals.parent_id # NoGroup
    /\ children(last.id, groups) # {}

----------------------------------------------------------------------------
(* AccountAnalyticDistribution: the percentage and its CHECK constraint *)

MaxDistributions == 2
DistributionIds == 1..MaxDistributions

\* percentages a caller may give, around both ends of the range
Percentages == {-1, 0, 1, 50, 99, 100, 101}

DefaultDistribution == [account_id |-> 1, percentage |-> 100, tag_id |-> "t1"]

\* CHECK(percentage >= 0 AND percentage <= 100)
check_percentage_exclusive(percentage) == percentage > 0 /\ percentage < 100

check_percentage(percentage) == percentage >= 0 /\ percentage <= 100

DistributionUnchanged == UNCHANGED <<accounts, lines, context, computed,
                                     groups, partners, call, returned>>

\* vals: percentage, or nothing for the default
create_distribution(vals) ==
    /\ seq.distribution < MaxDistributions
    /\ LET id == seq.distribution + 1
           row == Merge(DefaultDistribution, vals)
       IN  IF check_percentage(row.percentage)
           THEN /\ distributions' = distributions @@ (id :> row)
                /\ seq' = [seq EXCEPT !.distribution = id]
                /\ last' = [op |-> "create_distribution", id |-> id,
                            vals |-> vals, outcome |-> "ok"]
           ELSE /\ last' = [op |-> "create_distribution", id |-> id,
                            vals |-> vals, outcome |-> "IntegrityError"]
                /\ UNCHANGED <<distributions, seq>>
    /\ DistributionUnchanged

write_distribution(id, vals) ==
    /\ id \in DOMAIN distributions
    /\ LET row == Merge(distributions[id], vals)
       IN  IF check_percentage(row.percentage)
           THEN /\ distributions' = [distributions EXCEPT ![id] = row]
                /\ last' = [op |-> "write_distribution", id |-> id,
                            vals |-> vals, outcome |-> "ok"]
           ELSE /\ last' = [op |-> "write_distribution", id |-> id,
                            vals |-> vals, outcome |-> "IntegrityError"]
                /\ UNCHANGED distributions
    /\ UNCHANGED seq
    /\ DistributionUnchanged

InitDistribution ==
    /\ accounts = (1 :> DefaultAccount)
    /\ lines = Empty
    /\ seq = [NoRows EXCEPT !.account = 1]
    /\ last = NoLast
    /\ context = Empty
    /\ computed = Empty
    /\ groups = Empty
    /\ distributions = Empty
    /\ partners = Empty
    /\ call = Empty
    /\ returned = <<>>

NextDistribution ==
    \/ \E v \in [percentage : Percentages] \cup {Empty} : create_distribution(v)
    \/ \E d \in DistributionIds, v \in [percentage : Percentages] : write_distribution(d, v)

SpecDistribution == InitDistribution /\ [][NextDistribution]_vars

\* the percentage a create or a write asks the store to hold
RequestedPercentage(vals) ==
    IF "percentage" \in DOMAIN vals THEN vals.percentage ELSE 100

\* C7: creating or writing a distribution with percentage p succeeds iff
\* 0 <= p <= 100, both ends included; otherwise it is rejected, and no
\* distribution with a percentage out of the range is ever stored.
C7_PercentageInRange ==
    /\ [](\A d \in DOMAIN distributions :
              distributions[d].percentage \in 0..100)
    /\ [][last'.op \in {"create_distribution", "write_distribution"} =>
            LET p == RequestedPercentage(last'.vals)
            IN  IF 0 <= p /\ p <= 100
                THEN /\ last'.outcome = "ok"
                     /\ last'.id \in DOMAIN distributions'
                     /\ distributions'[last'.id].percentage = p
                ELSE /\ last'.outcome # "ok"
                     /\ distributions' = distributions]_vars

\* Both ends of the range are stored and a percentage just above was refused
C7_Witness ==
    /\ {distributions[d].percentage : d \in DOMAIN distributions} = {0, 100}
    /\ last.op = "write_distribution"
    /\ last.outcome = "IntegrityError"
    /\ last.vals.percentage = 101

----------------------------------------------------------------------------
(* AccountAnalyticAccount.name_get *)

\* analytic.partner_id.commercial_partner_id.name replaced by the name of
\* the partner itself
account_label_own_partner(analytic, prtn) ==
    LET name == IF analytic.code # NoCode
                THEN <<"[">> \o analytic.code \o <<"]", " ">> \o analytic.name
                ELSE analytic.name
    IN  IF analytic.partner_id # NoPartner
        THEN name \o <<" ", "-", " ">> \o prtn[analytic.partner_id].name
        ELSE name

\* the label of one account
account_label(analytic, prtn) ==
    LET name == IF analytic.code # NoCode
                THEN <<"[">> \o analytic.code \o <<"]", " ">> \o analytic.name
                ELSE analytic.name
    IN  IF analytic.partner_id # NoPartner
        THEN name \o <<" ", "-", " ">>
                 \o prtn[prtn[analytic.partner_id].commercial_partner_id].name
        ELSE name

\* self is the sequence of the ids of the recordset
name_get(self, accs, prtn) ==
    [i \in 1..Len(self) |-> <<self[i], account_label(accs[self[i]], prtn)>>]

AccountNames == {<<"a">>, <<"A">>, <<"a", "b">>}
AccountCodes == {NoCode, <<"A">>}
PartnerNames == {<<"a">>, <<"a", "b">>}

NamesUnchanged == UNCHANGED <<accounts, lines, seq, context, computed, groups,
                              distributions, partners, call>>

InitNameGet ==
    /\ accounts \in [AccountIds ->
           [name : AccountNames \ {<<"A">>}, code : AccountCodes, active : {TRUE},
            company_id : {UserCompany}, partner_id : PartnerIds \cup {NoPartner}]]
    /\ partners \in [PartnerIds -> [name : PartnerNames, active : {TRUE},
                                     commercial_partner_id : PartnerIds]]
    \* the commercial partner of a partner is its own commercial partner
    /\ \A q \in PartnerIds :
           partners[partners[q].commercial_partner_id].commercial_partner_id
               = partners[q].commercial_partner_id
    /\ lines = Empty
    /\ seq = [NoRows EXCEPT !.account = MaxAccounts]
    /\ last = NoLast
    /\ context = Empty
    /\ computed = Empty
    /\ groups = Empty
    /\ distributions = Empty
    /\ call = Empty
    /\ returned = <<>>

call_name_get(self) ==
    /\ returned' = name_get(self, accounts, partners)
    /\ last' = [op |-> "name_get", self |-> self, outcome |-> "ok"]
    /\ NamesUnchanged

\* the recordsets read: sequences of distinct ids
Recordsets ==
    {self \in UNION {[1..n -> AccountIds] : n \in 0..MaxAccounts} :
         \A i, j \in 1..Len(self) : i # j => self[i] # self[j]}

NextNameGet == \E self \in Recordsets : call_name_get(self)

SpecNameGet == InitNameGet /\ [][NextNameGet]_vars

\* C9: name_get returns, for each account of the input and in its order,
\* (id, label) with label = "[code] " + name when the account has a code and
\* name otherwise, followed by " - " + the name of the partner's commercial
\* partner when the account has a partner.
C9_NameGetLabels ==
    last.op = "name_get" =>
        /\ Len(returned) = Len(last.self)
        /\ \A i \in 1..Len(returned) :
               LET acc == accounts[last.self[i]]
                   head == IF acc.code = NoCode THEN <<>>
                           ELSE <<"[">> \o acc.code \o <<"]", " ">>
                   tail == IF acc.partner_id = NoPartner THEN <<>>
                           ELSE <<" ", "-", " ">> \o
                                partners[partners[acc.partner_id].commercial_partner_id].name
               IN  returned[i] = <<last.self[i], head \o acc.name \o tail>>

\* Account 2 before account 1: the first with a code and a partner whose
\* commercial partner bears another name, the second with neither
C9_Witness ==
    /\ last.op = "name_get"
    /\ last.self = <<2, 1>>
    /\ accounts[2].partner_id = "p2"
    /\ partners["p2"].name = <<"a">>
    /\ partners["p2"].commercial_partner_id = "p1"
    /\ partners["p1"].name = <<"a", "b">>
    /\ returned[1] = <<2, <<"[", "A", "]", " ", "a", " ", "-", " ", "a", "b">>>>
    /\ accounts[1].code = NoCode /\ accounts[1].partner_id = NoPartner
    /\ returned[2] = <<1, accounts[1].name>>

----------------------------------------------------------------------------
(* AccountAnalyticAccount.name_search *)

MaxLimit == 2

NameSearchOperators == {"ilike", "like", "=", "=like", "=ilike"}

\* the results a search with a limit may return: all the records found when
\* they are no more than limit, else limit of them; which ones depends on
\* the order of the table, which the model leaves open
limited(found, limit) ==
    {recs \in SUBSET found :
         Cardinality(recs) = IF Cardinality(found) <= limit
                             THEN Cardinality(found) ELSE limit}

\* a set of ids as a recordset, by increasing id
RECURSIVE browse(_)
browse(ids) ==
    IF ids = {} THEN <<>>
    ELSE LET id == CHOOSE x \in ids : \A y \in ids : x <= y
         IN  <<id>> \o browse(ids \ {id})

\* the records search(domain) finds; those with active = False are hidden
search_accounts(domain, accs) ==
    {a \in DOMAIN accs : accs[a].active /\ domain_matches(domain, accs[a])}

search_partners(domain, prtn) ==
    {q \in DOMAIN prtn : prtn[q].active /\ domain_matches(domain, prtn[q])}

\* the partner term added to the domain without its '|'
name_search_domain_no_or(name, operator, partner_ids) ==
    LET domain == <<OR_OPERATOR, Leaf("code", operator, name),
                    Leaf("name", operator, name)>>
    IN  IF partner_ids # {}
        THEN domain \o <<Leaf("partner_id", "in", partner_ids)>>
        ELSE domain

\* the domain on accounts, given the partners found by name
name_search_domain(name, operator, partner_ids) ==
    LET domain == <<OR_OPERATOR, Leaf("code", operator, name),
                    Leaf("name", operator, name)>>
    IN  IF partner_ids # {}
        THEN <<OR_OPERATOR>> \o domain \o <<Leaf("partner_id", "in", partner_ids)>>
        ELSE domain

\* name_search(name, args, operator, limit) for an operator of
\* NameSearchOperators, answering the call
name_search ==
    /\ call.operator \in NameSearchOperators
    /\ \E partner_ids \in limited(search_partners(
                <<Leaf("name", call.operator, call.name)>>, partners), call.limit) :
         \E recs \in limited(search_accounts(
                name_search_domain(call.name, call.operator, partner_ids)
                    \o call.args, accounts), call.limit) :
            /\ returned' = name_get(browse(recs), accounts, partners)
            /\ last' = [op |-> "name_search", partner_ids |-> partner_ids,
                        outcome |-> "ok"]
    /\ NamesUnchanged

Queries == {<<"a">>}
ExtraArgs == {<<>>, <<Leaf("partner_id", "=", "p2")>>}

InitNameSearch ==
    /\ accounts \in [AccountIds ->
           [name : AccountNames, code : AccountCodes, active : BOOLEAN,
            company_id : {UserCompany}, partner_id : PartnerIds \cup {NoPartner}]]
    /\ partners \in [PartnerIds -> [name : PartnerNames, active : BOOLEAN,
                                     commercial_partner_id : PartnerIds]]
    /\ \A q \in PartnerIds : partners[q].commercial_partner_id = q
    /\ call \in [name : Queries, args : ExtraArgs,
                 operator : NameSearchOperators, limit : 1..MaxLimit]
    /\ lines = Empty
    /\ seq = [NoRows EXCEPT !.account = MaxAccounts]
    /\ last = NoLast
    /\ context = Empty
    /\ computed = Empty
    /\ groups = Empty
    /\ distributions = Empty
    /\ returned = <<>>

NextNameSearch == name_search

SpecNameSearch == InitNameSearch /\ [][NextNameSearch]_vars

----------------------------------------------------------------------------
(* Claims about name_search, checked under SpecNameSearch *)

ReturnedIds == {returned[i][1] : i \in 1..Len(returned)}

\* the account has a code, a name or a linked partner name matching the query
MatchesQuery(a, linked) ==
    \/ str_match(accounts[a].code, call.operator, call.name)
    \/ str_match(accounts[a].name, call.operator, call.name)
    \/ /\ accounts[a].partner_id \in linked
       /\ str_match(partners[accounts[a].partner_id].name, call.operator, call.name)

SatisfiesArgs(a) ==
    \A i \in 1..Len(call.args) : eval_leaf(call.args[i], accounts[a])

\* with operator "=" a returned account has the query as its code, its name
\* or the name of its partner
ExactWhenEquals ==
    call.operator = "=" =>
        \A a \in ReturnedIds :
            \/ accounts[a].code = call.name
            \/ accounts[a].name = call.name
            \/ /\ accounts[a].partner_id # NoPartner
               /\ partners[accounts[a].partner_id].name = call.name

ReturnedAreMatches ==
    /\ Len(returned) <= call.limit
    /\ \A a \in ReturnedIds : SatisfiesArgs(a) /\ MatchesQuery(a, PartnerIds)
    /\ ExactWhenEquals

VisiblePartners == {q \in PartnerIds : partners[q].active}

\* the accounts a search can see that satisfy the args and match the query
VisibleMatches ==
    {a \in DOMAIN accounts :
         accounts[a].active /\ SatisfiesArgs(a) /\ MatchesQuery(a, VisiblePartners)}

\* C8 as stated, read over the records a search can see (the active accounts
\* and partners): name_search returns at most limit accounts, each satisfying
\* the extra args and matching the query by code, name or partner name, and
\* whenever the accounts that match are no more than limit, every one of
\* them is returned.
C8_AllMatchesReturned ==
    last.op = "name_search" =>
        /\ ReturnedAreMatches
        /\ Cardinality(VisibleMatches) <= call.limit =>
               VisibleMatches \subseteq ReturnedIds

\* C8 amended: name_search returns at most limit accounts, each active,
\* satisfying the extra args and matching the query by code, name or partner
\* name; whenever no more than limit active partners match the query by name
\* and no more than limit active accounts satisfy the args and match by
\* code, name or the name of an active partner, every one of those accounts
\* is returned.
C8_VisibleMatchesReturned ==
    last.op = "name_search" =>
        /\ ReturnedAreMatches
        /\ \A a \in ReturnedIds : accounts[a].active
        /\ LET found == {q \in VisiblePartners :
                            str_match(partners[q].name, call.operator, call.name)}
           IN  (Cardinality(found) <= call.limit
                   /\ Cardinality(VisibleMatches) <= call.limit)
                 => VisibleMatches \subseteq ReturnedIds

\* Operator "=" with two accounts returned, one of them for the name of its
\* partner alone: its own name holds the query only as a part
C8_Witness ==
    /\ last.op = "name_search"
    /\ call.operator = "="
    /\ call.name = <<"a">>
    /\ Cardinality(ReturnedIds) = 2
    /\ \E a \in ReturnedIds :
           /\ accounts[a].code = NoCode
           /\ accounts[a].name = <<"a", "b">>
           /\ accounts[a].partner_id # NoPartner
           /\ partners[accounts[a].partner_id].name = <<"a">>

====
